---- MODULE Spec2Model ----
(***************************************************************************)
(* The spatial index of the boids workshop: the flat quadtrees             *)
(* (LinearQuadTree, SIMDQuadTree) and the pointer-owned QuadTree.          *)
(*                                                                         *)
(* Coordinates are fixed point: 32 units are 1.0f, so that `* 0.5f` on     *)
(* the rectangles built here stays exact for five levels of halving.       *)
(* Floating point rounding is not modelled.                                *)
(***************************************************************************)
EXTENDS Integers, Sequences, FiniteSets, TLC

\* ------------------------------------------------------------------ bounds
NumEntities == 2
MaxObjects == 7
\* the longest `found` a caller hands to a further query without clearing it
MaxFound == 2
\* the frames of the simulation loop a run follows
MaxFrames == 2
\* the longest span handed to compute_bounds_of on its own
MaxSpan == 5

\* -------------------------------------------------------- program constants
\* static_cast<node_idx>(-1): the all-ones uint32, written as the -1 it is cast from
NO_CHILD == -1
ROOT_ID == 0
\* const float padding = 1.0f, in fixed point
padding == 32
\* FLT_MAX, as a value above every coordinate
FLT_MAX == 1048576
\* QuadTree::MAX_DEPTH
MAX_DEPTH == 5
\* default member initialisers of the flat trees
DefaultCapacity == 8
DefaultMaxDepth == 5

\* ------------------------------------------------------------------ inputs
Entity == 1..NumEntities
\* positions an entity can have: inside a quadrant, on the split lines of the
\* stage, on the far corner of the stage, outside the stage
Points == { <<32, 32>>, <<64, 64>>, <<96, 32>>, <<128, 128>>, <<160, 64>> }
\* the boundary the caller constructs the tree with
StageRect == [x |-> 0, y |-> 0, width |-> 128, height |-> 128]
\* the rectangles the caller queries
Ranges == { StageRect,
            [x |-> 0, y |-> 0, width |-> 64, height |-> 64],
            [x |-> 64, y |-> 0, width |-> 64, height |-> 64],
            [x |-> 96, y |-> 32, width |-> 0, height |-> 0],
            [x |-> 128, y |-> 0, width |-> 64, height |-> 128] }
Capacities == {1, 2}
Depths == {1, 2}
\* what a caller can hand a constructor: also the zero its assertions reject
CtorCapacities == Capacities \cup {0}
CtorDepths == Depths \cup {0}
\* std::span<const T> over the caller's array: a contiguous run of entities
Span(lo, hi) == [i \in 1..(hi - lo + 1) |-> lo + i - 1]
Spans == { Span(lo, hi) : lo \in 1..(NumEntities + 1), hi \in 0..NumEntities }

VARIABLES
    sim,         \* main(): where the simulation loop stands
    impl,        \* which tree class the caller instantiated
    avx,         \* the build defines __AVX__ / __AVX2__
    position,    \* the caller's entities: entity -> <<x, y>>
    pc,          \* "declared" before the constructor ran, "ready" after, "halted" after a
                 \* fault inside a build, "aborted" after a failed assertion on the arguments
    boundary,    \* Rectangle (Linear, Pointer) or SIMDRect (SIMD)
    capacity,
    max_depth,
    nodes,       \* std::vector<Node>, node index i is nodes[i + 1]
    nodes_cap,   \* nodes.capacity()
    data,        \* std::vector<const T*>
    qt,          \* the pointer-owned tree: path of quadrants -> node
    found,       \* the caller's result vector
    query,       \* the query that filled found, until the caller drops the result
    op,          \* the last operation that built or changed the tree
    objects,     \* the span given to the last build
    stats        \* what the last build did (calls, depth reached, moves of the node storage)

vars == << sim, impl, avx, position, pc, boundary, capacity, max_depth,
           nodes, nodes_cap, data, qt, found, query, op, objects, stats >>

\* ------------------------------------------------------------- rectangles
Rect(x, y, w, h) == [x |-> x, y |-> y, width |-> w, height |-> h]

\* SIMDRect(const Rectangle&)
SIMDRectOf(r) ==
    [minX |-> r.x, minY |-> r.y, maxX |-> r.x + r.width, maxY |-> r.y + r.height]

\* SIMDRect::to_rect
to_rect(s) == Rect(s.minX, s.minY, s.maxX - s.minX, s.maxY - s.minY)

\* raylib's point test, with the closed contract the design gives it
CheckCollisionPointRec(p, rec) ==
    /\ p[1] >= rec.x /\ p[1] <= rec.x + rec.width
    /\ p[2] >= rec.y /\ p[2] <= rec.y + rec.height

\* raylib's rectangle test, with the closed contract the design gives it
CheckCollisionRecs(a, b) ==
    /\ a.x <= b.x + b.width /\ a.x + a.width >= b.x
    /\ a.y <= b.y + b.height /\ a.y + a.height >= b.y

CheckCollisionPointRectSIMD(p, rect) ==
    /\ p[1] >= rect.minX /\ p[1] <= rect.maxX
    /\ p[2] >= rect.minY /\ p[2] <= rect.maxY

\* the four float lanes of SIMDRect::vec
Lanes(r) == << r.minX, r.minY, r.maxX, r.maxY >>

\* _MM_SHUFFLE(z, y, x, w) with _mm_shuffle_ps(a, b, imm):
\* lanes 0,1 are a[w], a[x]; lanes 2,3 are b[y], b[z]
mm_shuffle_ps(a, b, z, y, x, w) == << a[w + 1], a[x + 1], b[y + 1], b[z + 1] >>

mm_cmple_ps(a, b) == [i \in 1..4 |-> a[i] <= b[i]]
mm_cmpge_ps(a, b) == [i \in 1..4 |-> a[i] >= b[i]]
mm_and_ps(a, b) == [i \in 1..4 |-> a[i] /\ b[i]]
\* _mm_movemask_ps(v) == 0b1111
AllLanes(v) == \A i \in 1..4 : v[i]

\* the #else branch
ScalarOverlap(r1, r2) ==
    /\ r1.minX <= r2.maxX /\ r1.maxX >= r2.minX
    /\ r1.minY <= r2.maxY /\ r1.maxY >= r2.minY

\* the __AVX__ branch
VectorOverlap(r1, r2) ==
    LET r1v == Lanes(r1)
        r2v == Lanes(r2)
        r2v_shuf == mm_shuffle_ps(r2v, r2v, 1, 0, 3, 2)
        cmp1 == mm_cmple_ps(r1v, mm_shuffle_ps(r2v_shuf, r2v_shuf, 1, 0, 1, 0))
        cmp2 == mm_cmpge_ps(mm_shuffle_ps(r1v, r1v, 3, 2, 3, 2), r2v_shuf)
        result == mm_and_ps(cmp1, cmp2)
    IN AllLanes(result)

CheckCollisionRectsSIMD(r1, r2, useAvx) ==
    IF useAvx THEN VectorOverlap(r1, r2) ELSE ScalarOverlap(r1, r2)

\* ---------------------------------------------------------------- entities
\* sequence helpers
SeqSet(s) == { s[i] : i \in 1..Len(s) }
Swap(s, i, j) == [s EXCEPT ![i] = s[j], ![j] = s[i]]

\* ------------------------------------------------------------ std::vector
\* the capacity a full vector grows to on emplace_back (doubling growth)
GrowCapacity(cap) == IF cap = 0 THEN 1 ELSE 2 * cap

\* a node that forgets where its range starts
NewNodeAtZero(bound, start, depth) ==
    [boundary |-> bound, data_begin |-> 0, data_count |-> 0,
     quads |-> << NO_CHILD, NO_CHILD, NO_CHILD, NO_CHILD >>, depth |-> depth]

\* Node{bound, start}: data_count and quads take their default initialisers.
\* depth is not a field of the code's Node: it records the build_tree call.
NewNode(bound, start, depth) ==
    [boundary |-> bound, data_begin |-> start, data_count |-> 0,
     quads |-> << NO_CHILD, NO_CHILD, NO_CHILD, NO_CHILD >>, depth |-> depth]

is_leaf(node) == \A q \in 1..4 : node.quads[q] = NO_CHILD

\* nodes.emplace_back(bound, start): a full vector moves to new storage, and
\* every reference into the old storage dangles from then on
EmplaceBack(st, node) ==
    IF Len(st.nodes) >= st.cap
    THEN [st EXCEPT !.nodes = Append(@, node), !.cap = GrowCapacity(@),
                    !.reallocs = @ + 1]
    ELSE [st EXCEPT !.nodes = Append(@, node)]

\* node[quadrant] = <child index>, through the reference `node` taken right
\* after this call's emplace_back (when st.reallocs was r0). The right operand
\* is evaluated first; if the vector moved meanwhile the store goes through a
\* dangling reference: it either misses the live node or happens to land.
StoreChild(st, nodeIndex, r0, q, child, cfg) ==
    IF st.reallocs > r0
    THEN IF cfg.uaf = "lost"
         THEN [st EXCEPT !.stale = @ + 1]
         ELSE [st EXCEPT !.stale = @ + 1, !.nodes[nodeIndex + 1].quads[q] = child]
    ELSE [st EXCEPT !.nodes[nodeIndex + 1].quads[q] = child]

\* ---------------------------------------------------------- std::partition
\* the libstdc++ bidirectional algorithm: scan from both ends and swap
RECURSIVE ScanUp(_, _, _, _)
ScanUp(s, first, last, T) ==
    IF first < last /\ s[first + 1] \in T THEN ScanUp(s, first + 1, last, T) ELSE first

RECURSIVE ScanDown(_, _, _, _)
ScanDown(s, first, last, T) ==
    IF first < last /\ s[last + 1] \notin T THEN ScanDown(s, first, last - 1, T) ELSE last

RECURSIVE SwapPartition(_, _, _, _)
SwapPartition(s, first, last, T) ==
    LET f == ScanUp(s, first, last, T)
    IN IF f = last THEN [data |-> s, idx |-> f]
       ELSE LET l == ScanDown(s, f, last - 1, T)
            IN IF f = l THEN [data |-> s, idx |-> f]
               ELSE SwapPartition(Swap(s, f + 1, l + 1), f + 1, l, T)

\* an order-preserving std::partition
StablePartition(s, first, last, T) ==
    LET seg == SubSeq(s, first + 1, last)
        yes == SelectSeq(seg, LAMBDA e : e \in T)
        no == SelectSeq(seg, LAMBDA e : e \notin T)
    IN [data |-> SubSeq(s, 1, first) \o yes \o no \o SubSeq(s, last + 1, Len(s)),
        idx |-> first + Len(yes)]

\* partition_data(start, end, predicate): T is the set the predicate accepts.
\* The order inside each side is unspecified: cfg.order picks one.
partition_data(s, start, end, T, cfg) ==
    IF cfg.order = "stable" THEN StablePartition(s, start, end, T)
    ELSE SwapPartition(s, start, end, T)

\* ------------------------------------------------------------- build_tree
\* `* 0.5f`
Half(v) == v \div 2

\* the split point of a node: LinearQuadTree from origin and size,
\* SIMDQuadTree from the min and max corners
Center(bound, cfg) ==
    IF cfg.impl = "SIMD"
    THEN << Half(bound.minX + bound.maxX), Half(bound.minY + bound.maxY) >>
    ELSE << bound.x + Half(bound.width), bound.y + Half(bound.height) >>

\* child rectangles that all start at the parent's origin
ChildBoundAtOrigin(bound, q, cfg) ==
    IF cfg.impl = "SIMD"
    THEN SIMDRectOf(Rect(bound.minX, bound.minY,
                         Half(bound.maxX - bound.minX), Half(bound.maxY - bound.minY)))
    ELSE Rect(bound.x, bound.y, Half(bound.width), Half(bound.height))

\* the rectangle of quadrant q (1 TopLeft, 2 TopRight, 3 BottomLeft, 4 BottomRight)
ChildBound(bound, q, cfg) ==
    IF cfg.impl = "SIMD"
    THEN LET c == Center(bound, cfg)
         IN CASE q = 1 -> SIMDRectOf(Rect(bound.minX, bound.minY, c[1] - bound.minX, c[2] - bound.minY))
              [] q = 2 -> SIMDRectOf(Rect(c[1], bound.minY, bound.maxX - c[1], c[2] - bound.minY))
              [] q = 3 -> SIMDRectOf(Rect(bound.minX, c[2], c[1] - bound.minX, bound.maxY - c[2]))
              [] q = 4 -> SIMDRectOf(Rect(c[1], c[2], bound.maxX - c[1], bound.maxY - c[2]))
    ELSE LET x == bound.x
             y == bound.y
             w == Half(bound.width)
             h == Half(bound.height)
         IN CASE q = 1 -> Rect(x, y, w, h)
              [] q = 2 -> Rect(x + w, y, w, h)
              [] q = 3 -> Rect(x, y + h, w, h)
              [] q = 4 -> Rect(x + w, y + h, w, h)

\* a stop test that caps the depth one level early
StopsHereEarly(count, depth, cfg) == count <= cfg.capacity \/ depth + 1 >= cfg.max_depth

\* a stop test that caps the depth one level late
StopsHereLate(count, depth, cfg) == count <= cfg.capacity \/ depth > cfg.max_depth

\* count <= capacity || depth >= max_depth
StopsHere(count, depth, cfg) == count <= cfg.capacity \/ depth >= cfg.max_depth

\* p->position.y < center.y
to_the_top(pos, center) == { e \in DOMAIN pos : pos[e][2] < center[2] }
\* a left side that takes the entities on the split line too
to_the_left_or_on(pos, center) == { e \in DOMAIN pos : pos[e][1] <= center[1] }

\* p->position.x < center.x
to_the_left(pos, center) == { e \in DOMAIN pos : pos[e][1] < center[1] }

\* the three partition_data calls of build_tree on [start, end):
\* y (idx_split_y), xl (idx_split_x_left), xr (idx_split_x_right)
split_right(pl, idx_split_y, end, left, cfg) ==
    LET pr == partition_data(pl.data, idx_split_y, end, left, cfg)
    IN [data |-> pr.data, y |-> idx_split_y, xl |-> pl.idx, xr |-> pr.idx]

split_left(py, start, end, left, cfg) ==
    split_right(partition_data(py.data, start, py.idx, left, cfg), py.idx, end, left, cfg)

split(dat, start, end, center, pos, cfg) ==
    split_left(partition_data(dat, start, end, to_the_top(pos, center), cfg),
               start, end, to_the_left(pos, center), cfg)

\* the build state st: nodes, data, cap (nodes.capacity()), reallocs (moves of
\* the node storage so far), stale (stores made through a dangling reference),
\* calls (build_tree calls entered), deepest (largest depth argument),
\* empty_calls (calls entered with start >= end)
Entered(st, start, end, depth) ==
    [st EXCEPT !.calls = @ + 1,
               !.deepest = IF depth > @ THEN depth ELSE @,
               !.empty_calls = @ + (IF start < end THEN 0 ELSE 1)]

RECURSIVE build_tree(_, _, _, _, _, _, _)
RECURSIVE build_child_quad(_, _, _, _, _, _, _, _, _, _)

\* node[q] = <the index build_tree returned>
store_built(r, nodeIndex, r0, q, cfg) == StoreChild(r.st, nodeIndex, r0, q, r.idx, cfg)

\* a quadrant step that recurses into empty sub-ranges too
build_child_quad_always(st, nodeIndex, r0, q, lo, hi, bound, depth, pos, cfg) ==
    store_built(build_tree(st, lo, hi, ChildBound(bound, q, cfg), depth + 1, pos, cfg),
                nodeIndex, r0, q, cfg)

\* one quadrant of the node nodeIndex: recurse when its sub-range [lo, hi) is
\* not empty, then store. LinearQuadTree skips the store for an empty
\* quadrant; SIMDQuadTree stores the NO_CHILD that build_child_quad returns.
build_child_quad(st, nodeIndex, r0, q, lo, hi, bound, depth, pos, cfg) ==
    IF lo < hi
    THEN store_built(build_tree(st, lo, hi, ChildBound(bound, q, cfg), depth + 1, pos, cfg),
                     nodeIndex, r0, q, cfg)
    ELSE IF cfg.impl = "SIMD"
         THEN StoreChild(st, nodeIndex, r0, q, NO_CHILD, cfg)
         ELSE st

\* the four quadrants in the order TopLeft, TopRight, BottomLeft, BottomRight
build_quads(st1, nodeIndex, r0, sp, start, end, bound, depth, pos, cfg) ==
    build_child_quad(
        build_child_quad(
            build_child_quad(
                build_child_quad([st1 EXCEPT !.data = sp.data],
                                 nodeIndex, r0, 1, start, sp.xl, bound, depth, pos, cfg),
                nodeIndex, r0, 2, sp.xl, sp.y, bound, depth, pos, cfg),
            nodeIndex, r0, 3, sp.y, sp.xr, bound, depth, pos, cfg),
        nodeIndex, r0, 4, sp.xr, end, bound, depth, pos, cfg)

\* build_tree after nodes.emplace_back: st1 holds the new node at nodeIndex,
\* and `node` refers to it as long as st1.reallocs stays what it is now
build_node(st1, nodeIndex, start, end, bound, depth, pos, cfg) ==
    IF StopsHere(end - start, depth, cfg)
    THEN [st |-> [st1 EXCEPT !.nodes[nodeIndex + 1].data_count = end - start],
          idx |-> nodeIndex]
    ELSE [st |-> build_quads(st1, nodeIndex, st1.reallocs,
                             split(st1.data, start, end, Center(bound, cfg), pos, cfg),
                             start, end, bound, depth, pos, cfg),
          idx |-> nodeIndex]

\* build_tree(start, end, bound, depth)
build_tree(st0, start, end, bound, depth, pos, cfg) ==
    build_node(EmplaceBack(Entered(st0, start, end, depth), NewNode(bound, start, depth)),
               Len(st0.nodes), start, end, bound, depth, pos, cfg)

\* ------------------------------------------------- rebuild (flat trees)
NoStats == [calls |-> 0, deepest |-> 0, reallocs |-> 0, stale |-> 0, empty_calls |-> 0]

\* the test of rebuild's filter loop
InBoundary(e, bnd, pos, cfg) ==
    IF cfg.impl = "SIMD" THEN CheckCollisionPointRectSIMD(pos[e], bnd)
    ELSE CheckCollisionPointRec(pos[e], bnd)

\* a filter loop that pushes every object, whatever its position
FilterDataKeepAll(objs, bnd, pos, cfg) == objs

\* the filter loop of rebuild: the entities of the span inside the boundary, in order
FilterData(objs, bnd, pos, cfg) ==
    SelectSeq(objs, LAMBDA e : InBoundary(e, bnd, pos, cfg))

\* a clear() that leaves the elements in place
vector_keep(v) == v

\* std::vector::clear(): no element stays; the capacity is kept (see Reserve)
vector_clear(v) == << >>

\* a test that never takes the early return
data_empty_never(dat) == FALSE

\* if(data.empty()){ return; }
data_empty(dat) == Len(dat) = 0

\* nodes.reserve(n) on the cleared vector
Reserve(cap, n) == IF n > cap THEN n ELSE cap

\* rebuild(objects) of LinearQuadTree and SIMDQuadTree on the members
\* nds (nodes), dat (data) and cap (nodes.capacity()).
\* SIMDQuadTree divides by capacity / 2, which is zero for capacity 1: the
\* division traps (cfg.divzero = "trap") or yields 0 (cfg.divzero = "zero").
rebuild(nds, dat, cap, bnd, objs, pos, cfg) ==
    LET nodes0 == vector_clear(nds)
        data0 == vector_clear(dat)
        filtered == data0 \o FilterData(objs, bnd, pos, cfg)
        traps == cfg.impl = "SIMD" /\ cfg.capacity \div 2 = 0 /\ cfg.divzero = "trap"
        reserved == IF cfg.impl = "SIMD"
                    THEN IF cfg.capacity \div 2 = 0 THEN cap
                         ELSE Reserve(cap, Len(filtered) \div (cfg.capacity \div 2))
                    ELSE cap
        st0 == [nodes |-> nodes0, data |-> filtered, cap |-> reserved,
                reallocs |-> 0, stale |-> 0, calls |-> 0, deepest |-> 0, empty_calls |-> 0]
    IN IF Len(objs) = 0
       THEN [nodes |-> nodes0, data |-> data0, cap |-> cap, halted |-> FALSE, stats |-> NoStats]
       ELSE IF data_empty(filtered)
       THEN [nodes |-> nodes0, data |-> filtered, cap |-> cap, halted |-> FALSE, stats |-> NoStats]
       ELSE IF traps
       THEN [nodes |-> nodes0, data |-> filtered, cap |-> cap, halted |-> TRUE, stats |-> NoStats]
       ELSE LET r == build_tree(st0, 0, Len(filtered), bnd, 0, pos, cfg).st
            IN [nodes |-> r.nodes, data |-> r.data, cap |-> r.cap, halted |-> FALSE,
                stats |-> [calls |-> r.calls, deepest |-> r.deepest, reallocs |-> r.reallocs,
                           stale |-> r.stale, empty_calls |-> r.empty_calls]]

\* ------------------------------------------------------ compute_bounds_of
RECURSIVE MinMaxLoop(_, _, _, _)
\* the loop of compute_bounds_of from index i (0-based) on, acc = [min_x, max_x, min_y, max_y]
MinMaxLoop(objs, i, pos, acc) ==
    IF i >= Len(objs) THEN acc
    ELSE LET p == pos[objs[i + 1]]
         IN MinMaxLoop(objs, i + 1, pos,
                [min_x |-> IF p[1] < acc.min_x THEN p[1] ELSE acc.min_x,
                 max_x |-> IF p[1] > acc.max_x THEN p[1] ELSE acc.max_x,
                 min_y |-> IF p[2] < acc.min_y THEN p[2] ELSE acc.min_y,
                 max_y |-> IF p[2] > acc.max_y THEN p[2] ELSE acc.max_y])

\* bounds padded at the origin only: the size is left at max - min
compute_bounds_origin_only(objs, pos) ==
    IF Len(objs) = 0 THEN Rect(0, 0, 0, 0)
    ELSE LET p0 == pos[objs[1]]
             m == MinMaxLoop(objs, 1, pos,
                     [min_x |-> p0[1], max_x |-> p0[1], min_y |-> p0[2], max_y |-> p0[2]])
         IN Rect(m.min_x - padding, m.min_y - padding,
                 m.max_x - m.min_x, m.max_y - m.min_y)

\* compute_bounds_of as a Rectangle (LinearQuadTree; QuadTree computes the same
\* four extremes with minmax_element)
compute_bounds_of(objs, pos) ==
    IF Len(objs) = 0 THEN Rect(0, 0, 0, 0)
    ELSE LET p0 == pos[objs[1]]
             m == MinMaxLoop(objs, 1, pos,
                     [min_x |-> p0[1], max_x |-> p0[1], min_y |-> p0[2], max_y |-> p0[2]])
         IN Rect(m.min_x - padding, m.min_y - padding,
                 (m.max_x - m.min_x) + 2 * padding, (m.max_y - m.min_y) + 2 * padding)

\* ------------------------- compute_bounds_of of the earlier SIMDQuadTree
mm_set1_ps(v) == << v, v, v, v >>
mm_setr_ps(a, b, c, d) == << a, b, c, d >>
mm_min_ps(a, b) == [i \in 1..4 |-> IF a[i] < b[i] THEN a[i] ELSE b[i]]
mm_max_ps(a, b) == [i \in 1..4 |-> IF a[i] > b[i] THEN a[i] ELSE b[i]]
mm_unpacklo_ps(a, b) == << a[1], b[1], a[2], b[2] >>
mm_unpackhi_ps(a, b) == << a[3], b[3], a[4], b[4] >>
\* batch_x or batch_y: the coordinate of the four objects from index i (0-based) on
Batch(objs, i, pos, axis) == [j \in 1..4 |-> pos[objs[i + j]][axis]]

\* one batch folded into acc = [min_vec, max_vec]
FoldBatch(acc, x_vec, y_vec) ==
    [min_vec |-> mm_min_ps(mm_min_ps(acc.min_vec, mm_unpacklo_ps(x_vec, y_vec)),
                           mm_unpackhi_ps(x_vec, y_vec)),
     max_vec |-> mm_max_ps(mm_max_ps(acc.max_vec, mm_unpacklo_ps(x_vec, y_vec)),
                           mm_unpackhi_ps(x_vec, y_vec))]

\* for(; i + batch_size <= objects.size(); i += batch_size), then
\* for(; i < objects.size(); i++) with pos_vec = [x, y, x, y]
RECURSIVE VecLoop(_, _, _, _, _)
VecLoop(objs, i, pos, acc, batches) ==
    IF batches /\ i + 4 <= Len(objs)
    THEN VecLoop(objs, i + 4, pos,
                 FoldBatch(acc, Batch(objs, i, pos, 1), Batch(objs, i, pos, 2)), TRUE)
    ELSE IF i < Len(objs)
    THEN VecLoop(objs, i + 1, pos,
                 [min_vec |-> mm_min_ps(acc.min_vec,
                                 mm_setr_ps(pos[objs[i + 1]][1], pos[objs[i + 1]][2],
                                            pos[objs[i + 1]][1], pos[objs[i + 1]][2])),
                  max_vec |-> mm_max_ps(acc.max_vec,
                                 mm_setr_ps(pos[objs[i + 1]][1], pos[objs[i + 1]][2],
                                            pos[objs[i + 1]][1], pos[objs[i + 1]][2]))],
                 FALSE)
    ELSE acc

Min2(a, b) == IF b < a THEN b ELSE a
Max2(a, b) == IF a < b THEN b ELSE a

\* std::min / std::max over the stored lanes, then the padded SIMDRect
ExtractBounds(min_values, max_values) ==
    [minX |-> Min2(min_values[1], min_values[2]) - padding,
     minY |-> Min2(min_values[3], min_values[4]) - padding,
     maxX |-> Max2(max_values[1], max_values[2]) + padding,
     maxY |-> Max2(max_values[3], max_values[4]) + padding]

\* the horizontal reduction: min/max of each vector with its pair-swapped shuffle
HorizontalReduce(acc) ==
    ExtractBounds(mm_min_ps(acc.min_vec, mm_shuffle_ps(acc.min_vec, acc.min_vec, 2, 3, 0, 1)),
                  mm_max_ps(acc.max_vec, mm_shuffle_ps(acc.max_vec, acc.max_vec, 2, 3, 0, 1)))

\* the vectorized compute_bounds_of
compute_bounds_of_simd(objs, pos) ==
    IF Len(objs) = 0 THEN [minX |-> 0, minY |-> 0, maxX |-> 0, maxY |-> 0]
    ELSE HorizontalReduce(VecLoop(objs, 0, pos,
                                  [min_vec |-> mm_set1_ps(FLT_MAX),
                                   max_vec |-> mm_set1_ps(-FLT_MAX)], TRUE))

\* the boundary member after `boundary = compute_bounds_of(objects)`
FittedBoundary(objs, pos, cfg) ==
    IF cfg.impl = "SIMD"
    THEN IF Len(objs) = 0 THEN [minX |-> 0, minY |-> 0, maxX |-> 0, maxY |-> 0]
         ELSE SIMDRectOf(compute_bounds_of(objs, pos))
    ELSE compute_bounds_of(objs, pos)

\* ------------------------------------------------ query_range (flat trees)
Overlaps(nodeBoundary, range, cfg) ==
    IF cfg.impl = "SIMD" THEN CheckCollisionRectsSIMD(nodeBoundary, range, cfg.avx)
    ELSE CheckCollisionRecs(nodeBoundary, range)

InRange(p, range, cfg) ==
    IF cfg.impl = "SIMD" THEN CheckCollisionPointRectSIMD(p, range)
    ELSE CheckCollisionPointRec(p, range)

\* the leaf loop: for(i = 0; i < data_count; i++)
RECURSIVE ScanLeaf(_, _, _, _, _, _, _)
ScanLeaf(dat, node, i, range, acc, pos, cfg) ==
    IF i >= node.data_count THEN acc
    ELSE LET obj == dat[node.data_begin + i + 1]
         IN ScanLeaf(dat, node, i + 1, range,
                     IF InRange(pos[obj], range, cfg) THEN Append(acc, obj) ELSE acc,
                     pos, cfg)

\* query_range_recursive; acc = [found, visited], visited lists the nodes read
RECURSIVE query_range_recursive(_, _, _, _, _, _, _)
query_range_recursive(nds, dat, nodeIndex, range, acc, pos, cfg) ==
    IF nodeIndex = NO_CHILD \/ nodeIndex >= Len(nds) THEN acc
    ELSE LET node == nds[nodeIndex + 1]
             acc0 == [acc EXCEPT !.visited = Append(@, nodeIndex)]
         IN IF ~Overlaps(node.boundary, range, cfg) THEN acc0
            ELSE IF is_leaf(node)
            THEN [acc0 EXCEPT !.found = ScanLeaf(dat, node, 0, range, @, pos, cfg)]
            ELSE LET a1 == query_range_recursive(nds, dat, node.quads[1], range, acc0, pos, cfg)
                     a2 == query_range_recursive(nds, dat, node.quads[2], range, a1, pos, cfg)
                     a3 == query_range_recursive(nds, dat, node.quads[3], range, a2, pos, cfg)
                 IN query_range_recursive(nds, dat, node.quads[4], range, a3, pos, cfg)

\* a query that clears the caller's vector first
query_range_cleared(nds, dat, range, fnd, pos, cfg) ==
    query_range_recursive(nds, dat, ROOT_ID,
                          IF cfg.impl = "SIMD" THEN SIMDRectOf(range) ELSE range,
                          [found |-> << >>, visited |-> << >>], pos, cfg)

\* query_range(range, found): SIMDQuadTree converts the Rectangle first
query_range(nds, dat, range, fnd, pos, cfg) ==
    query_range_recursive(nds, dat, ROOT_ID,
                          IF cfg.impl = "SIMD" THEN SIMDRectOf(range) ELSE range,
                          [found |-> fnd, visited |-> << >>], pos, cfg)

\* ------------------------------------------------ the pointer-owned QuadTree
\* a node is addressed by the path of quadrants from the root
\* (1 north_west, 2 north_east, 3 south_west, 4 south_east)
RootPath == << >>

\* QuadTree(boundary, capacity, depth)
QNode(bnd, cap, depth) ==
    [boundary |-> bnd, capacity |-> cap, depth |-> depth, objects |-> << >>,
     subdivided |-> FALSE]

\* assert(depth <= MAX_DEPTH); assert(capacity > 0);
QNodeAsserts(cap, depth) == depth <= MAX_DEPTH /\ cap > 0

\* child rectangles that all lie on the north-west quarter
QChildRectNorthWest(bnd, q) ==
    Rect(bnd.x, bnd.y, Half(bnd.width), Half(bnd.height))

\* the rectangle subdivide() gives child q
QChildRect(bnd, q) ==
    LET x == bnd.x
        y == bnd.y
        w == Half(bnd.width)
        h == Half(bnd.height)
    IN CASE q = 1 -> Rect(x, y, w, h)
         [] q = 2 -> Rect(x + w, y, w, h)
         [] q = 3 -> Rect(x, y + h, w, h)
         [] q = 4 -> Rect(x + w, y + h, w, h)

\* subdivide() of the node at path: four children one level deeper
subdivide(tree, path) ==
    LET node == tree[path]
        kids == { Append(path, q) : q \in 1..4 }
    IN [p \in DOMAIN tree \cup kids |->
           IF p \in kids
           THEN QNode(QChildRect(node.boundary, p[Len(p)]), node.capacity, node.depth + 1)
           ELSE IF p = path THEN [node EXCEPT !.subdivided = TRUE] ELSE tree[p]]

\* a store test that caps the depth one level late
QStoresHereLate(node) == Len(node.objects) < node.capacity \/ node.depth > MAX_DEPTH

\* objects.size() < capacity || depth >= MAX_DEPTH
QStoresHere(node) == Len(node.objects) < node.capacity \/ node.depth >= MAX_DEPTH

\* insert(const T* obj) on the node at path.
\* Returns the tree, the bool the call returns, and whether an assertion
\* failed on the way (a child constructed too deep, or the assert(false)).
RECURSIVE insert(_, _, _, _)
RECURSIVE insert_children(_, _, _, _, _)

\* if(child->insert(obj)) return true; and on to the next child
insert_next(r, path, q, obj, pos) ==
    IF r.ok \/ r.asserted THEN r ELSE insert_children(r.tree, path, q + 1, obj, pos)

\* the four child inserts from child q on, then assert(false)
insert_children(tree, path, q, obj, pos) ==
    IF q > 4 THEN [tree |-> tree, ok |-> FALSE, asserted |-> TRUE]
    ELSE insert_next(insert(tree, Append(path, q), obj, pos), path, q, obj, pos)

insert(tree, path, obj, pos) ==
    IF ~CheckCollisionPointRec(pos[obj], tree[path].boundary)
    THEN [tree |-> tree, ok |-> FALSE, asserted |-> FALSE]
    ELSE IF QStoresHere(tree[path])
    THEN [tree |-> [tree EXCEPT ![path].objects = Append(@, obj)],
          ok |-> TRUE, asserted |-> FALSE]
    ELSE IF tree[path].subdivided
    THEN insert_children(tree, path, 1, obj, pos)
    ELSE IF ~QNodeAsserts(tree[path].capacity, tree[path].depth + 1)
    THEN [tree |-> subdivide(tree, path), ok |-> FALSE, asserted |-> TRUE]
    ELSE insert_children(subdivide(tree, path), path, 1, obj, pos)

\* insert(std::span): all_inserted &= insert(&obj) for each object, from index i on
RECURSIVE insert_span(_, _, _, _, _)
insert_span(tree, objs, i, pos, all_inserted) ==
    IF i > Len(objs) THEN [tree |-> tree, ok |-> all_inserted, asserted |-> FALSE]
    ELSE LET r == insert(tree, RootPath, objs[i], pos)
         IN IF r.asserted THEN r
            ELSE insert_span(r.tree, objs, i + 1, pos, all_inserted /\ r.ok)

\* clear(): the root keeps its rectangle and capacity, the children are released
clear(tree) ==
    [p \in {RootPath} |-> [tree[RootPath] EXCEPT !.objects = << >>, !.subdivided = FALSE]]

\* for(auto obj : objects) of QuadTree::query_range
RECURSIVE QScan(_, _, _, _, _)
QScan(objs, i, range, acc, pos) ==
    IF i > Len(objs) THEN acc
    ELSE QScan(objs, i + 1, range,
               IF CheckCollisionPointRec(pos[objs[i]], range) THEN Append(acc, objs[i]) ELSE acc,
               pos)

\* QuadTree::query_range on the node at path; acc = [found, visited]
RECURSIVE qquery_range(_, _, _, _, _)
qquery_range(tree, path, range, acc, pos) ==
    LET node == tree[path]
        acc0 == [acc EXCEPT !.visited = Append(@, path)]
    IN IF ~CheckCollisionRecs(node.boundary, range) THEN acc0
       ELSE LET a0 == [acc0 EXCEPT !.found = QScan(node.objects, 1, range, @, pos)]
            IN IF ~node.subdivided THEN a0
               ELSE LET a1 == qquery_range(tree, Append(path, 1), range, a0, pos)
                        a2 == qquery_range(tree, Append(path, 2), range, a1, pos)
                        a3 == qquery_range(tree, Append(path, 3), range, a2, pos)
                    IN qquery_range(tree, Append(path, 4), range, a3, pos)

\* the tree before its constructor ran
NoTree == << >>

\* ------------------------------------------------------------ the machine
Flat == {"Linear", "SIMD"}
NoQuery == [active |-> FALSE, range |-> Rect(0, 0, 0, 0), visited |-> << >>]
Op(name, ret) == [name |-> name, ret |-> ret]

\* what the build leaves to the implementation: the order std::partition
\* leaves (it matters from two elements on), what a store through a dangling
\* reference does, what the division by zero does
BuildChoices(objs, cap) ==
    [order : IF Len(objs) >= 2 THEN {"stable", "swap"} ELSE {"stable"},
     uaf : IF Len(objs) >= 2 THEN {"lost", "lands"} ELSE {"lost"},
     divzero : IF impl = "SIMD" /\ cap \div 2 = 0 THEN {"trap", "zero"} ELSE {"trap"}]

Cfg(cap, md, ch) ==
    [impl |-> impl, avx |-> avx, capacity |-> cap, max_depth |-> md,
     order |-> ch.order, uaf |-> ch.uaf, divzero |-> ch.divzero]

\* the configuration of a query: no build choice is read
QueryCfg == Cfg(capacity, max_depth, [order |-> "stable", uaf |-> "lost", divzero |-> "trap"])

\* boundary(boundary_) of the constructors
BoundaryMember(b) == IF impl = "SIMD" THEN SIMDRectOf(b) ELSE b

\* the tree's boundary as the caller's Rectangle
BoundaryRect == IF impl = "SIMD" THEN to_rect(boundary) ELSE boundary

InitWith(impls) ==
    /\ impl \in impls
    /\ avx \in (IF impl = "SIMD" THEN BOOLEAN ELSE {FALSE})
    /\ position \in [Entity -> Points]
    /\ pc = "declared"
    /\ boundary = BoundaryMember(Rect(0, 0, 0, 0))
    /\ capacity = IF impl = "Pointer" THEN 0 ELSE DefaultCapacity
    /\ max_depth = IF impl = "Pointer" THEN MAX_DEPTH ELSE DefaultMaxDepth
    /\ nodes = << >>
    /\ nodes_cap = 0
    /\ data = << >>
    /\ qt = NoTree
    /\ found = << >>
    /\ query = NoQuery
    /\ op = Op("none", TRUE)
    /\ objects = << >>
    /\ stats = NoStats

\* the effect of rebuild(objs) with boundary bnd on the flat tree
DoBuild(name, bnd, cap, md, objs, ch) ==
    LET r == rebuild(nodes, data, nodes_cap, bnd, objs, position, Cfg(cap, md, ch))
    IN /\ nodes' = r.nodes
       /\ data' = r.data
       /\ nodes_cap' = r.cap
       /\ stats' = r.stats
       /\ pc' = IF r.halted THEN "halted" ELSE "ready"
       /\ boundary' = bnd
       /\ capacity' = cap
       /\ max_depth' = md
       /\ objects' = objs
       /\ op' = Op(name, ~r.halted)
       /\ UNCHANGED << impl, avx, position, qt, found, query >>

\* the same called by a client outside the simulation loop
DoRebuild(name, bnd, cap, md, objs, ch) ==
    DoBuild(name, bnd, cap, md, objs, ch) /\ UNCHANGED sim

\* a constructor called with the span objs whose assertion on its arguments
\* failed: the member initialisers ran, nothing was built
AbortConstruct(name, bnd, cap, md, objs) ==
    /\ pc' = "aborted"
    /\ boundary' = bnd
    /\ capacity' = cap
    /\ max_depth' = md
    /\ op' = Op(name, FALSE)
    /\ objects' = objs
    /\ UNCHANGED << sim, impl, avx, position, nodes, nodes_cap, data, qt, found, query, stats >>

\* assert(capacity > 0); assert(max_depth > 0);
CtorAsserts(cap, md) == cap > 0 /\ md > 0

\* the constructor body of the flat trees: the two assertions, then rebuild(objects)
ConstructWith(name, bnd, cap, md, objs, ch) ==
    IF CtorAsserts(cap, md) THEN DoRebuild(name, bnd, cap, md, objs, ch)
    ELSE AbortConstruct(name, bnd, cap, md, objs)

\* LinearQuadTree() = default; SIMDQuadTree() = default
DefaultConstruct ==
    /\ pc = "declared" /\ impl \in Flat
    /\ pc' = "ready"
    /\ op' = Op("default_construct", TRUE)
    /\ UNCHANGED << sim, impl, avx, position, boundary, capacity, max_depth, nodes,
                    nodes_cap, data, qt, found, query, objects, stats >>

\* LinearQuadTree(boundary_, objects, capacity_, max_depth_), and SIMDQuadTree's
Construct ==
    /\ pc = "declared" /\ impl \in Flat
    /\ \E objs \in Spans, cap \in CtorCapacities, md \in CtorDepths :
         \E ch \in BuildChoices(objs, cap) :
            ConstructWith("construct", BoundaryMember(StageRect), cap, md, objs, ch)

\* LinearQuadTree(objects, capacity_, max_depth_), and SIMDQuadTree's, which
\* hands compute_bounds_of's SIMDRect on as a Rectangle
ConstructFit ==
    /\ pc = "declared" /\ impl \in Flat
    /\ \E objs \in Spans, cap \in CtorCapacities, md \in CtorDepths :
         \E ch \in BuildChoices(objs, cap) :
            ConstructWith("construct_fit",
                          IF impl = "SIMD"
                          THEN BoundaryMember(to_rect(FittedBoundary(objs, position, Cfg(cap, md, ch))))
                          ELSE BoundaryMember(FittedBoundary(objs, position, Cfg(cap, md, ch))),
                          cap, md, objs, ch)

\* The caller drops a query result before the next build or query: a
\* reference obtained from a query is not kept across a rebuild.
ResultDropped == ~query.active

\* a rebuild that refits the boundary to the objects first
RebuildRefits ==
    /\ pc = "ready" /\ impl \in Flat /\ ResultDropped
    /\ \E objs \in Spans :
         \E ch \in BuildChoices(objs, capacity) :
            DoRebuild("rebuild",
                      FittedBoundary(objs, position, Cfg(capacity, max_depth, ch)),
                      capacity, max_depth, objs, ch)

\* rebuild(objects)
Rebuild ==
    /\ pc = "ready" /\ impl \in Flat /\ ResultDropped
    /\ \E objs \in Spans :
         \E ch \in BuildChoices(objs, capacity) :
            DoRebuild("rebuild", boundary, capacity, max_depth, objs, ch)

\* rebuild_and_fit_to(objects)
RebuildAndFitTo ==
    /\ pc = "ready" /\ impl \in Flat /\ ResultDropped
    /\ \E objs \in Spans :
         \E ch \in BuildChoices(objs, capacity) :
            DoRebuild("rebuild_and_fit_to",
                      FittedBoundary(objs, position, Cfg(capacity, max_depth, ch)),
                      capacity, max_depth, objs, ch)

\* tree.query_range(range, found) with an empty found
QueryRange ==
    /\ pc = "ready" /\ impl \in Flat /\ ResultDropped
    /\ \E range \in Ranges \cup {BoundaryRect} :
         LET r == query_range(nodes, data, range, << >>, position, QueryCfg)
         IN /\ found' = r.found
            /\ query' = [active |-> TRUE, range |-> range, visited |-> r.visited]
    /\ UNCHANGED << sim, impl, avx, position, pc, boundary, capacity, max_depth, nodes,
                    nodes_cap, data, qt, op, objects, stats >>

\* tree.query_range(range, found) again, into the vector the caller still
\* holds from the query before
QueryAppend ==
    /\ pc = "ready" /\ impl \in Flat /\ query.active
    /\ Len(found) <= MaxFound
    /\ \E range \in Ranges \cup {BoundaryRect} :
         LET r == query_range(nodes, data, range, found, position, QueryCfg)
         IN /\ found' = r.found
            /\ query' = [active |-> TRUE, range |-> range, visited |-> r.visited]
    /\ UNCHANGED << sim, impl, avx, position, pc, boundary, capacity, max_depth, nodes,
                    nodes_cap, data, qt, op, objects, stats >>

\* found.clear(): the caller is done with the result
DropResult ==
    /\ query.active
    /\ found' = << >>
    /\ query' = NoQuery
    /\ UNCHANGED << sim, impl, avx, position, pc, boundary, capacity, max_depth, nodes,
                    nodes_cap, data, qt, op, objects, stats >>

\* ------------------------------------------- the pointer-owned tree's steps
\* every object pointer the tree holds, over all its nodes
RECURSIVE SumLen(_, _)
SumLen(tree, paths) ==
    IF paths = {} THEN 0
    ELSE LET p == CHOOSE x \in paths : TRUE
         IN Len(tree[p].objects) + SumLen(tree, paths \ {p})
TotalObjects == SumLen(qt, DOMAIN qt)

\* the tree after a constructor or a rebuild did its inserts
QSet(name, tree, r, objs) ==
    /\ qt' = r.tree
    /\ boundary' = r.tree[RootPath].boundary
    /\ capacity' = r.tree[RootPath].capacity
    /\ pc' = IF r.asserted THEN "halted" ELSE "ready"
    /\ op' = Op(name, r.ok)
    /\ objects' = objs
    /\ UNCHANGED << sim, impl, avx, position, max_depth, nodes, nodes_cap, data, found,
                    query, stats >>

QRoot(bnd, cap) == [p \in {RootPath} |-> QNode(bnd, cap, 0)]

\* a QuadTree constructor: the delegated QuadTree(boundary, capacity, 0) with
\* its assertions, then `requires`, the assertion of the delegating
\* constructor (TRUE when it has none), then the inserts that give r
QConstructWith(name, bnd, cap, requires, r, objs) ==
    IF QNodeAsserts(cap, 0) /\ requires THEN QSet(name, qt, r, objs)
    ELSE AbortConstruct(name, bnd, cap, max_depth, objs)

\* QuadTree(boundary, capacity)
QConstruct ==
    /\ pc = "declared" /\ impl = "Pointer"
    /\ \E cap \in CtorCapacities :
         QConstructWith("construct", StageRect, cap, TRUE,
                        [tree |-> QRoot(StageRect, cap), ok |-> TRUE, asserted |-> FALSE], << >>)

\* QuadTree(boundary, objects, capacity)
QConstructFrom ==
    /\ pc = "declared" /\ impl = "Pointer"
    /\ \E objs \in Spans, cap \in CtorCapacities :
         QConstructWith("construct", StageRect, cap, objs # << >>,
                        insert_span(QRoot(StageRect, cap), objs, 1, position, TRUE), objs)

\* QuadTree(objects, capacity)
QConstructFit ==
    /\ pc = "declared" /\ impl = "Pointer"
    /\ \E objs \in Spans, cap \in CtorCapacities :
         QConstructWith("construct_fit", compute_bounds_of(objs, position), cap, objs # << >>,
                        insert_span(QRoot(compute_bounds_of(objs, position), cap),
                                    objs, 1, position, TRUE),
                        objs)

\* insert(std::span) on the root, on top of what the tree holds; objects
\* records the span of this call
QInsert ==
    /\ pc = "ready" /\ impl = "Pointer" /\ ResultDropped
    /\ \E objs \in Spans \ {<< >>} :
         /\ TotalObjects + Len(objs) <= MaxObjects
         /\ QSet("insert", qt, insert_span(qt, objs, 1, position, TRUE), objs)

\* rebuild(objects): clear(), then insert
QRebuild ==
    /\ pc = "ready" /\ impl = "Pointer" /\ ResultDropped
    /\ \E objs \in Spans :
         QSet("rebuild", qt, insert_span(clear(qt), objs, 1, position, TRUE), objs)

\* rebuild_and_fit_to(objects): clear(), refit the root, then insert
QRebuildAndFitTo ==
    /\ pc = "ready" /\ impl = "Pointer" /\ ResultDropped
    /\ \E objs \in Spans :
         IF objs # << >>
         THEN QSet("rebuild_and_fit_to", qt,
                   insert_span([clear(qt) EXCEPT ![RootPath].boundary =
                                                     compute_bounds_of(objs, position)],
                               objs, 1, position, TRUE),
                   objs)
         ELSE \* assert(!objects_.empty() && "Cannot resize boundary with an empty collection")
              /\ pc' = "aborted"
              /\ UNCHANGED << sim, impl, avx, position, boundary, capacity, max_depth, nodes,
                              nodes_cap, data, qt, found, query, op, objects, stats >>

\* clear()
QClear ==
    /\ pc = "ready" /\ impl = "Pointer" /\ ResultDropped
    /\ QSet("clear", qt, [tree |-> clear(qt), ok |-> TRUE, asserted |-> FALSE], << >>)

\* query_range(range, found) with an empty found
QQueryRange ==
    /\ pc = "ready" /\ impl = "Pointer" /\ ResultDropped
    /\ \E range \in Ranges \cup {boundary} :
         LET r == qquery_range(qt, RootPath, range, [found |-> << >>, visited |-> << >>], position)
         IN /\ found' = r.found
            /\ query' = [active |-> TRUE, range |-> range, visited |-> r.visited]
    /\ UNCHANGED << sim, impl, avx, position, pc, boundary, capacity, max_depth, nodes,
                    nodes_cap, data, qt, op, objects, stats >>

\* ------------------------------------------------- the simulation loop
\* main() of the steering program, scaled to the model's stage.
\* STAGE_SIZE
STAGE_SIZE == << StageRect.width, StageRect.height >>
\* globalConfig.vision_range, in fixed point (half a unit)
vision_range == 16
\* std::vector<Boid> boids(BOID_COUNT) as the span handed to the tree
Boids == Span(1, NumEntities)
\* where a boid starts: random_range(ZERO, STAGE_SIZE)
StartPoints == { p \in Points : CheckCollisionPointRec(p, StageRect) }
\* velocities after Vector2ClampValue(velocity, min_speed, max_speed):
\* lengths between min_speed and max_speed, per unit of frame time
Velocities == { << 64, 0 >>, << -64, -32 >> }
\* GetFrameTime(): a regular frame and a frame after a long stall
FrameTimes == { 1, 3 }

\* sim: mode (the program with the tree or the earlier brute-force one),
\* at (the statement to run next), boid (the loop variable of
\* `for(auto& boid : boids)`), owner (the boid whose visible_boids is in found),
\* fresh (no boid moved since that list was filled), isPaused, deltaTime,
\* frames (iterations of the while loop begun)
NoSim == [mode |-> "none", at |-> "none", boid |-> 0, owner |-> 0, fresh |-> FALSE,
          isPaused |-> FALSE, deltaTime |-> 0, frames |-> 0]

\* if(pos.x > world_size.x) pos.x -= world_size.x; else if(pos.x < 0) pos.x += world_size.x;
wrap_axis(v, size) == IF v > size THEN v - size ELSE IF v < 0 THEN v + size ELSE v
world_wrap(pos, world_size) ==
    << wrap_axis(pos[1], world_size[1]), wrap_axis(pos[2], world_size[2]) >>

\* Boid::nearby()
nearby(pos) == Rect(pos[1] - vision_range, pos[2] - vision_range,
                    vision_range * 2, vision_range * 2)

\* Vector2Distance(a, b) < range, on the squares
CloserThan(a, b, range) ==
    (a[1] - b[1]) * (a[1] - b[1]) + (a[2] - b[2]) * (a[2] - b[2]) < range * range

\* the brute-force update_visible_boids of boid b: the loop from boid i on
RECURSIVE visible_from(_, _, _, _)
visible_from(b, i, acc, pos) ==
    IF i > Len(Boids) THEN acc
    ELSE visible_from(b, i + 1,
                      IF Boids[i] = b THEN acc
                      ELSE IF CloserThan(pos[b], pos[Boids[i]], vision_range)
                           THEN Append(acc, Boids[i]) ELSE acc,
                      pos)

\* the loop variable after boid b: the next boid, or the next frame
AfterBoid(b) ==
    IF b < NumEntities THEN [at |-> "query", boid |-> b + 1]
    ELSE [at |-> "frame", boid |-> 0]

InitLoop ==
    /\ InitWith(Flat)
    /\ \A e \in Entity : position[e] \in StartPoints
    /\ sim \in { [NoSim EXCEPT !.mode = m, !.at = "main"] : m \in {"tree", "brute"} }
    /\ sim.mode = "brute" => (impl = "Linear" /\ ~avx)

\* Tree quad_tree(STAGE_RECT, boids, capacity, 5)
SimConstruct ==
    /\ sim.mode = "tree" /\ sim.at = "main" /\ pc = "declared"
    /\ \E cap \in Capacities :
         \E ch \in BuildChoices(Boids, cap) :
            DoBuild("construct", BoundaryMember(StageRect), cap, DefaultMaxDepth, Boids, ch)
    /\ sim' = [sim EXCEPT !.at = "frame"]

\* the brute-force main(): no tree
SimStart ==
    /\ sim.mode = "brute" /\ sim.at = "main"
    /\ sim' = [sim EXCEPT !.at = "frame"]
    /\ UNCHANGED << impl, avx, position, pc, boundary, capacity, max_depth, nodes,
                    nodes_cap, data, qt, found, query, op, objects, stats >>

\* the top of the while loop: deltaTime, isPaused
FrameTop(dt, toggle) ==
    [sim EXCEPT !.at = "query", !.boid = 1, !.deltaTime = dt,
                !.isPaused = IF toggle THEN ~@ ELSE @, !.frames = @ + 1, !.fresh = FALSE]

\* float deltaTime = GetFrameTime(); ...; quad_tree.rebuild(boids);
SimFrame ==
    /\ sim.mode = "tree" /\ sim.at = "frame" /\ pc = "ready"
    /\ sim.frames < MaxFrames
    /\ \E dt \in FrameTimes, toggle \in BOOLEAN :
         /\ sim' = FrameTop(dt, toggle)
         /\ \E ch \in BuildChoices(Boids, capacity) :
               DoBuild("rebuild", boundary, capacity, max_depth, Boids, ch)

\* the same in the brute-force program
SimFrameBrute ==
    /\ sim.mode = "brute" /\ sim.at = "frame"
    /\ sim.frames < MaxFrames
    /\ \E dt \in FrameTimes, toggle \in BOOLEAN : sim' = FrameTop(dt, toggle)
    /\ UNCHANGED << impl, avx, position, pc, boundary, capacity, max_depth, nodes,
                    nodes_cap, data, qt, found, query, op, objects, stats >>

\* the loop after update_visible_boids: `if(isPaused) continue;`
Queried(b) ==
    IF sim.isPaused
    THEN [sim EXCEPT !.at = AfterBoid(b).at, !.boid = AfterBoid(b).boid,
                     !.owner = b, !.fresh = TRUE]
    ELSE [sim EXCEPT !.at = "update", !.owner = b, !.fresh = TRUE]

\* boid.update_visible_boids(quad_tree)
SimQuery ==
    /\ sim.mode = "tree" /\ sim.at = "query" /\ pc = "ready"
    /\ LET r == query_range(nodes, data, nearby(position[sim.boid]), << >>, position, QueryCfg)
       IN /\ found' = r.found
          /\ query' = [active |-> TRUE, range |-> nearby(position[sim.boid]),
                       visited |-> r.visited]
    /\ sim' = Queried(sim.boid)
    /\ UNCHANGED << impl, avx, position, pc, boundary, capacity, max_depth, nodes,
                    nodes_cap, data, qt, op, objects, stats >>

\* boid.update_visible_boids(boids) of the brute-force program
SimQueryBrute ==
    /\ sim.mode = "brute" /\ sim.at = "query"
    /\ found' = visible_from(sim.boid, 1, << >>, position)
    /\ sim' = Queried(sim.boid)
    /\ UNCHANGED << impl, avx, position, pc, boundary, capacity, max_depth, nodes,
                    nodes_cap, data, qt, query, op, objects, stats >>

\* boid.update(deltaTime, obstacles): position += velocity * deltaTime;
\* position = world_wrap(position, STAGE_SIZE)
SimUpdate ==
    /\ sim.at = "update"
    /\ \E v \in Velocities :
         position' = [position EXCEPT ![sim.boid] =
                         world_wrap(<< @[1] + v[1] * sim.deltaTime,
                                       @[2] + v[2] * sim.deltaTime >>, STAGE_SIZE)]
    /\ sim' = [sim EXCEPT !.at = AfterBoid(sim.boid).at, !.boid = AfterBoid(sim.boid).boid,
                          !.fresh = FALSE]
    /\ UNCHANGED << impl, avx, pc, boundary, capacity, max_depth, nodes,
                    nodes_cap, data, qt, found, query, op, objects, stats >>

NextLoop ==
    \/ SimConstruct
    \/ SimStart
    \/ SimFrame
    \/ SimFrameBrute
    \/ SimQuery
    \/ SimQueryBrute
    \/ SimUpdate

\* main(): the simulation loop, with the tree and without
SpecLoop == InitLoop /\ [][NextLoop]_vars

\* --------------------------------------- compute_bounds_of on its own
\* the objects of a span of up to MaxSpan objects, each at one of Points
InitBounds ==
    /\ impl = "SIMD"
    /\ avx = FALSE
    /\ position \in UNION { [1..n -> Points] : n \in 0..MaxSpan }
    /\ pc = "declared"
    /\ boundary = BoundaryMember(Rect(0, 0, 0, 0))
    /\ capacity = DefaultCapacity
    /\ max_depth = DefaultMaxDepth
    /\ nodes = << >>
    /\ nodes_cap = 0
    /\ data = << >>
    /\ qt = NoTree
    /\ found = << >>
    /\ query = NoQuery
    /\ op = Op("none", TRUE)
    /\ objects = << >>
    /\ stats = NoStats
    /\ sim = NoSim

\* boundary = compute_bounds_of(objects), the vectorized version
FitVectorized ==
    /\ op.name = "none" /\ pc = "declared"
    /\ boundary' = compute_bounds_of_simd(Span(1, Len(position)), position)
    /\ objects' = Span(1, Len(position))
    /\ op' = Op("compute_bounds_of_simd", TRUE)
    /\ UNCHANGED << sim, impl, avx, position, pc, capacity, max_depth, nodes, nodes_cap,
                    data, qt, found, query, stats >>

\* boundary = compute_bounds_of(objects), the scalar loop
FitScalar ==
    /\ op.name = "none" /\ pc = "declared"
    /\ boundary' = FittedBoundary(Span(1, Len(position)), position, QueryCfg)
    /\ objects' = Span(1, Len(position))
    /\ op' = Op("compute_bounds_of", TRUE)
    /\ UNCHANGED << sim, impl, avx, position, pc, capacity, max_depth, nodes, nodes_cap,
                    data, qt, found, query, stats >>

NextBounds ==
    \/ FitVectorized
    \/ FitScalar

\* the two versions of SIMDQuadTree::compute_bounds_of, applied to a span
SpecBounds == InitBounds /\ [][NextBounds]_vars

\* ------------------------------------------------------- specifications
Init == InitWith(Flat) /\ sim = NoSim

Next ==
    \/ DefaultConstruct
    \/ Construct
    \/ ConstructFit
    \/ Rebuild
    \/ RebuildAndFitTo
    \/ QueryRange
    \/ DropResult

\* the flat trees: LinearQuadTree and SIMDQuadTree
Spec == Init /\ [][Next]_vars

InitTrees == InitWith(Flat \cup {"Pointer"}) /\ sim = NoSim

NextTrees ==
    \/ Next
    \/ QConstruct
    \/ QConstructFrom
    \/ QConstructFit
    \/ QInsert
    \/ QRebuild
    \/ QRebuildAndFitTo
    \/ QClear
    \/ QQueryRange

\* the three trees: the flat ones and the pointer-owned QuadTree
SpecTrees == InitTrees /\ [][NextTrees]_vars

NextAppend ==
    \/ Next
    \/ QueryAppend

\* the flat trees with callers that query into a vector they did not clear
SpecAppend == Init /\ [][NextAppend]_vars

\* ============================================================ properties
\* views of the state the properties read
IsFlat == impl \in Flat
NoDup(s) == \A i, j \in 1..Len(s) : i # j => s[i] # s[j]
\* the entities of the last build's span that lie inside the tree boundary
InBounds == { e \in SeqSet(objects) : InBoundary(e, boundary, position, QueryCfg) }
\* the entities a query over range has to return
Expected(range) == { e \in InBounds : CheckCollisionPointRec(position[e], range) }
\* what query_range(range) returns on the tree (nds, dat), as a set
Answer(nds, dat, range) == SeqSet(query_range(nds, dat, range, << >>, position, QueryCfg).found)

\* ---------------------------------------------------------------------- C1
\* C1: on a flat tree built from E with boundary B, query_range(R, found)
\* with an empty found yields exactly the entities of E inside B and inside R,
\* each exactly once. Refuted: a child link stored through the dangling
\* reference of build_tree is lost, and the AVX overlap test rejects nodes.
C1_QueryExact ==
    (IsFlat /\ pc = "ready" /\ query.active)
        => /\ SeqSet(found) = Expected(query.range)
           /\ NoDup(found)

\* ---------------------------------------------------------------------- C2
\* C2: on every pair of rectangles a query compares (a node boundary and the
\* query range, min <= max on both axes), the vectorized branch of
\* CheckCollisionRectsSIMD returns what the scalar branch returns.
C2_VectorMatchesScalar ==
    (impl = "SIMD" /\ pc = "ready" /\ query.active)
        => \A i \in SeqSet(query.visited) :
              VectorOverlap(nodes[i + 1].boundary, SIMDRectOf(query.range))
                  = ScalarOverlap(nodes[i + 1].boundary, SIMDRectOf(query.range))

\* ---------------------------------------------------------------------- C3
\* C3: after a build from E, an entity of E outside the boundary is not in
\* the Object Array and no query returns it; the in-bounds entities of E are
\* in the Object Array, each once; and a build only faults on SIMDQuadTree's
\* division by capacity / 2, never on an out-of-bounds entity.
C3_OutOfBoundsExcluded ==
    (IsFlat /\ pc \in {"ready", "halted"})
        => /\ SeqSet(data) = InBounds
           /\ NoDup(data)
           /\ \A e \in SeqSet(found) : e \in InBounds
           /\ (pc = "halted" => impl = "SIMD" /\ capacity \div 2 = 0 /\ InBounds # {})

\* C3 witness: the span holds an entity outside the boundary and one inside,
\* and a query whose range contains both positions returned only the inside one
C3_Witness ==
    /\ IsFlat /\ pc = "ready" /\ query.active
    /\ \E e1, e2 \in SeqSet(objects) :
          /\ ~InBoundary(e1, boundary, position, QueryCfg)
          /\ CheckCollisionPointRec(position[e1], query.range)
          /\ e2 \in InBounds
          /\ SeqSet(found) = {e2}

C5_RebuildIdempotent ==
    [][ (IsFlat /\ pc = "ready" /\ pc' = "ready" /\ op'.name = "rebuild"
         /\ objects' = objects /\ boundary' = boundary)
            => \A R \in Ranges : Answer(nodes', data', R) = Answer(nodes, data, R) ]_vars

\* ---------------------------------------------------------------------- C6
\* C6: after any build every leaf of a flat tree has data_count <= capacity
\* or was built at depth max_depth; every node of the pointer-owned tree holds
\* at most capacity objects unless its depth is MAX_DEPTH.
C6_LeafCapacity ==
    /\ IsFlat =>
          \A i \in 1..Len(nodes) :
             is_leaf(nodes[i]) => \/ nodes[i].data_count <= capacity
                                  \/ nodes[i].depth = max_depth
    /\ impl = "Pointer" =>
          \A p \in DOMAIN qt : \/ Len(qt[p].objects) <= qt[p].capacity
                               \/ qt[p].depth = MAX_DEPTH

\* C6 witness: a flat leaf over capacity, which the depth cap closed
C6_Witness ==
    /\ IsFlat /\ pc = "ready"
    /\ \E i \in 1..Len(nodes) :
          /\ is_leaf(nodes[i])
          /\ nodes[i].data_count > capacity
          /\ nodes[i].depth = max_depth

\* ---------------------------------------------------------------------- C7
\* C7: no node exists deeper than the maximum depth. build_tree is never
\* entered with depth > max_depth; in the pointer-owned tree a node's depth
\* is its distance from the root and at most MAX_DEPTH, no node at MAX_DEPTH is
\* subdivided, and no assertion fails.
C7_DepthBounded ==
    /\ IsFlat =>
          /\ stats.deepest <= max_depth
          /\ \A i \in 1..Len(nodes) : nodes[i].depth <= max_depth
    /\ impl = "Pointer" =>
          /\ pc # "halted"
          /\ \A p \in DOMAIN qt :
                /\ qt[p].depth = Len(p)
                /\ qt[p].depth <= MAX_DEPTH
                /\ (qt[p].subdivided => qt[p].depth < MAX_DEPTH)

\* C7 witness: a node of the pointer-owned tree at MAX_DEPTH that took more
\* objects than its capacity instead of subdividing
C7_Witness ==
    /\ impl = "Pointer" /\ pc = "ready"
    /\ \E p \in DOMAIN qt :
          /\ qt[p].depth = MAX_DEPTH
          /\ Len(qt[p].objects) > qt[p].capacity

\* ---------------------------------------------------------------------- C8
\* C8: a rebuild ends after finitely many build_tree calls, none deeper than
\* max_depth and none on an empty range (so at most (max_depth + 1) * |data|
\* calls, one node each); a query reads each node at most once.
C8_Bounded ==
    (IsFlat /\ pc # "declared")
        => /\ stats.deepest <= max_depth
           /\ stats.empty_calls = 0
           /\ stats.calls = Len(nodes)
           /\ stats.calls <= (max_depth + 1) * Len(data)
           /\ (query.active => NoDup(query.visited) /\ Len(query.visited) <= Len(nodes))

\* C8 witness: both entities at one position, capacity 1: the build went down
\* to max_depth, and a query then read every node
C8_Witness ==
    /\ IsFlat /\ pc = "ready" /\ capacity = 1
    /\ objects = << 1, 2 >> /\ position[1] = position[2]
    /\ stats.deepest = max_depth
    /\ query.active /\ Len(nodes) >= 2 /\ Len(query.visited) = Len(nodes)

\* ---------------------------------------------------------------------- C9
MinOf(S) == CHOOSE m \in S : \A x \in S : m <= x
MaxOf(S) == CHOOSE m \in S : \A x \in S : m >= x
\* the coordinates (axis 1 is x, axis 2 is y) of the last build's span
Coords(axis) == { position[e][axis] : e \in SeqSet(objects) }

\* C9: for a non-empty span, the boundary compute_bounds_of gives the tree has
\* origin (min_x - 1, min_y - 1) and size (max_x - min_x + 2, max_y - min_y + 2),
\* 1 being `padding`, and every entity of the span lies strictly inside it.
C9_PaddedBounds ==
    (op.name \in {"construct_fit", "rebuild_and_fit_to"} /\ objects # << >>)
        => /\ BoundaryRect = Rect(MinOf(Coords(1)) - padding, MinOf(Coords(2)) - padding,
                                  MaxOf(Coords(1)) - MinOf(Coords(1)) + 2 * padding,
                                  MaxOf(Coords(2)) - MinOf(Coords(2)) + 2 * padding)
           /\ \A e \in SeqSet(objects) :
                 /\ BoundaryRect.x < position[e][1]
                 /\ position[e][1] < BoundaryRect.x + BoundaryRect.width
                 /\ BoundaryRect.y < position[e][2]
                 /\ position[e][2] < BoundaryRect.y + BoundaryRect.height

\* C9 witness: a tree fitted to two entities that differ on both axes
C9_Witness ==
    /\ op.name = "rebuild_and_fit_to" /\ objects = << 1, 2 >>
    /\ position[1][1] # position[2][1] /\ position[1][2] # position[2][2]
    /\ BoundaryRect.width = MaxOf(Coords(1)) - MinOf(Coords(1)) + 2 * padding

\* --------------------------------------------------------------------- C10
\* C10: after rebuild_and_fit_to(E) with a non-empty E the boundary is the
\* padded bounds of E, all of E is in the Object Array, and query_range over
\* the new boundary returns all of E. Refuted on the query: child links
\* stored through build_tree's dangling reference are lost.
C10_FitIndexesAll ==
    (IsFlat /\ pc = "ready" /\ op.name = "rebuild_and_fit_to" /\ objects # << >>)
        => /\ BoundaryRect = compute_bounds_of(objects, position)
           /\ SeqSet(data) = SeqSet(objects)
           /\ (query.active /\ query.range = BoundaryRect
                  => SeqSet(found) = SeqSet(objects))

\* --------------------------------------------------------------------- C11
\* C11: rebuild_and_fit_to with an empty entity sequence fails an assertion
\* before any state changes: no rebuild_and_fit_to completes on an empty
\* span, and the boundary is never replaced by the {0,0,0,0} that
\* compute_bounds_of returns for it. Refuted on the flat trees, which have no
\* such assertion: the call completes and leaves the degenerate boundary.
C11_EmptyFitRejected ==
    op.name = "rebuild_and_fit_to"
        => /\ objects # << >>
           /\ BoundaryRect # Rect(0, 0, 0, 0)

\* --------------------------------------------------------------------- C12
\* C12: a constructor called with capacity 0 fails its assertion, and so does
\* a constructor without an explicit boundary called with an empty entity
\* sequence: neither leaves a usable tree (one that accepts queries). Refuted
\* on the flat trees: their fitting constructor has no assertion on the
\* sequence and completes on an empty one.
C12_ConstructionAsserts ==
    /\ (op.name \in {"construct", "construct_fit"} /\ capacity = 0) => pc = "aborted"
    /\ (op.name = "construct_fit" /\ objects = << >>) => pc = "aborted"

\* --------------------------------------------------------------------- C13
\* the tree indexes nothing: no entity of the last build's span is in bounds
\* (flat trees), no node holds an object (pointer-owned tree)
EmptyTree == IF IsFlat THEN InBounds = {} ELSE TotalObjects = 0

C14_RebuildFrame ==
    [][ /\ (IsFlat /\ pc = "ready" /\ op'.name = "rebuild")
              => /\ boundary' = boundary
                 /\ capacity' = capacity
                 /\ max_depth' = max_depth
                 /\ position' = position
        /\ (IsFlat /\ ~query.active /\ query'.active)
              => UNCHANGED << position, boundary, capacity, max_depth, nodes, nodes_cap,
                              data, objects, op, pc >> ]_vars

\* C14 witness: a rebuild left the Object Array in another order than the
\* caller's span, inside the boundary the tree was constructed with
C14_Witness ==
    /\ IsFlat /\ pc = "ready" /\ op.name = "rebuild"
    /\ objects = << 1, 2 >> /\ data = << 2, 1 >>
    /\ BoundaryRect = StageRect

\* --------------------------------------------------------------------- C15
\* views of a built flat tree
Builds == {"construct", "construct_fit", "rebuild", "rebuild_and_fit_to"}
\* the quadrant of the rectangle split at c that the point p is sorted into
Quadrant(p, c) ==
    IF p[2] < c[2] THEN (IF p[1] < c[1] THEN 1 ELSE 2)
    ELSE (IF p[1] < c[1] THEN 3 ELSE 4)
\* the in-bounds entities that belong to quadrant q of the tree boundary
InQuadrant(q) ==
    { e \in InBounds : Quadrant(position[e], Center(boundary, QueryCfg)) = q }
\* quadrant q of the tree boundary, as the caller's Rectangle
QuadRect(q) ==
    IF impl = "SIMD" THEN to_rect(ChildBound(boundary, q, QueryCfg))
    ELSE ChildBound(boundary, q, QueryCfg)
\* the entities in the range [data_begin, data_begin + data_count) of a node
LeafSet(node) == { data[k] : k \in (node.data_begin + 1)..(node.data_begin + node.data_count) }

\* C15: when the in-bounds entities outnumber capacity and every quadrant of
\* the root holds at most capacity of them, the build completes with a root
\* and one leaf per non-empty quadrant, each leaf linked from the root's slot
\* of its quadrant and holding exactly that quadrant's entities, and a query
\* of a quadrant's rectangle returns exactly the entities inside it. Refuted:
\* the links are stored through build_tree's dangling reference, and
\* SIMDQuadTree's rebuild divides by capacity / 2.
C15_QuadrantLeaves ==
    (/\ IsFlat /\ pc \in {"ready", "halted"} /\ op.name \in Builds
     /\ max_depth >= 1
     /\ Cardinality(InBounds) > capacity
     /\ \A q \in 1..4 : Cardinality(InQuadrant(q)) <= capacity)
        => /\ pc = "ready"
           /\ Len(nodes) = 1 + Cardinality({ q \in 1..4 : InQuadrant(q) # {} })
           /\ \A q \in 1..4 :
                 IF InQuadrant(q) = {} THEN nodes[1].quads[q] = NO_CHILD
                 ELSE /\ nodes[1].quads[q] \in 1..(Len(nodes) - 1)
                      /\ is_leaf(nodes[nodes[1].quads[q] + 1])
                      /\ nodes[nodes[1].quads[q] + 1].boundary = ChildBound(boundary, q, QueryCfg)
                      /\ nodes[nodes[1].quads[q] + 1].data_count = Cardinality(InQuadrant(q))
                      /\ LeafSet(nodes[nodes[1].quads[q] + 1]) = InQuadrant(q)
           /\ (query.active /\ \E q \in 1..4 : query.range = QuadRect(q))
                 => SeqSet(found) = Expected(query.range)

\* --------------------------------------------------------------------- C16
\* C16: whenever the in-bounds entities (at least one: the empty tree is
\* C13's) number at most capacity, the build produces exactly one node, a
\* root leaf with data_begin 0, data_count the number of entities and no
\* children, and query_range over the whole boundary returns all of them.
\* Refuted on SIMDQuadTree with capacity 1, whose rebuild divides by
\* capacity / 2 before it builds.
C16_SingleRootLeaf ==
    (/\ IsFlat /\ pc \in {"ready", "halted"} /\ op.name \in Builds
     /\ InBounds # {}
     /\ Cardinality(InBounds) <= capacity)
        => /\ pc = "ready"
           /\ Len(nodes) = 1
           /\ nodes[1].data_begin = 0
           /\ nodes[1].data_count = Cardinality(InBounds)
           /\ is_leaf(nodes[1])
           /\ (query.active /\ query.range = BoundaryRect) => SeqSet(found) = InBounds

\* --------------------------------------------------------------------- C17
\* the child slots of a node that hold a child
Children(node) == { q \in 1..4 : node.quads[q] # NO_CHILD }

\* C17: when more than capacity entities, all at one position, are built, the
\* tree is a chain: max_depth internal nodes with one child and no data each,
\* then exactly one leaf, at depth max_depth, whose range is the whole Object
\* Array; a query whose rectangle contains the position returns them all.
\* Refuted: the chain's links are stored through build_tree's dangling
\* reference, and SIMDQuadTree's rebuild divides by capacity / 2.
C17_CoincidentChain ==
    (/\ IsFlat /\ pc \in {"ready", "halted"} /\ op.name \in Builds
     /\ max_depth >= 1
     /\ Cardinality(InBounds) > capacity
     /\ \A e1, e2 \in InBounds : position[e1] = position[e2])
        => /\ pc = "ready"
           /\ Len(nodes) = max_depth + 1
           /\ \A i \in 1..max_depth :
                 /\ nodes[i].depth = i - 1
                 /\ nodes[i].data_count = 0
                 /\ Cardinality(Children(nodes[i])) = 1
                 /\ \A q \in Children(nodes[i]) : nodes[i].quads[q] = i
           /\ is_leaf(nodes[max_depth + 1])
           /\ nodes[max_depth + 1].depth = max_depth
           /\ nodes[max_depth + 1].data_begin = 0
           /\ nodes[max_depth + 1].data_count = Len(data)
           /\ LeafSet(nodes[max_depth + 1]) = InBounds
           /\ (query.active /\ \A e \in InBounds :
                                  CheckCollisionPointRec(position[e], query.range))
                 => SeqSet(found) = InBounds

\* --------------------------------------------------------------------- C18
\* build_tree appends a node before it builds the node's children, so the
\* Node Store is in preorder: the parent of a node is the last node before
\* it that is one level up, and its subtree runs to the next node that is
\* not deeper (i, j are positions in nodes, from 1)
Parent(i) == MaxOf({ j \in 1..(i - 1) : nodes[j].depth = nodes[i].depth - 1 })
LastOf(i) ==
    MaxOf({ k \in i..Len(nodes) : \A m \in (i + 1)..k : nodes[m].depth > nodes[i].depth })
\* the entities in the leaf ranges of the subtree of node i
Under(i) == UNION { LeafSet(nodes[k]) : k \in i..LastOf(i) }
\* the quadrant of p when the points on the split lines go left and up
QuadrantLeftTop(p, c) ==
    IF p[2] <= c[2] THEN (IF p[1] <= c[1] THEN 1 ELSE 2)
    ELSE (IF p[1] <= c[1] THEN 3 ELSE 4)
\* once build_tree ran, every entity of the Object Array is in the range of
\* exactly one leaf
InOneLeaf ==
    nodes # << >> =>
       \A e \in SeqSet(data) :
          Cardinality({ k \in 1..Len(nodes) : e \in LeafSet(nodes[k]) }) = 1

\* C18 as claimed: at every split, an entity with x = center.x is in the
\* range of a left child and an entity with y = center.y in the range of a
\* top child. Violated: the predicates are `<`, so these entities land in the
\* right and bottom children.
C18_TieBreakLeftTop ==
    IsFlat =>
       \A i \in 2..Len(nodes) : \A e \in Under(i) :
          nodes[i].boundary =
             ChildBound(nodes[Parent(i)].boundary,
                        QuadrantLeftTop(position[e], Center(nodes[Parent(i)].boundary, QueryCfg)),
                        QueryCfg)

\* C18 amended: at every split, an entity with x = center.x is in the range
\* of a right child and an entity with y = center.y in the range of a bottom
\* child (left is x < center.x, top is y < center.y); the rule is the same at
\* every level, and each entity lands in exactly one leaf range.
C18_TieBreakRightBottom ==
    IsFlat =>
       /\ \A i \in 2..Len(nodes) : \A e \in Under(i) :
             nodes[i].boundary =
                ChildBound(nodes[Parent(i)].boundary,
                           Quadrant(position[e], Center(nodes[Parent(i)].boundary, QueryCfg)),
                           QueryCfg)
       /\ InOneLeaf

\* C18 witness: a child of the root for the bottom right quadrant holds an
\* entity that lies on both split lines of the root, next to another child
C18_Witness ==
    /\ IsFlat /\ pc = "ready" /\ Len(nodes) >= 3
    /\ \E i \in 2..Len(nodes) : \E e \in Under(i) :
          /\ Parent(i) = 1
          /\ position[e] = Center(boundary, QueryCfg)
          /\ nodes[i].boundary = ChildBound(boundary, 4, QueryCfg)

\* --------------------------------------------------------------------- C19
\* the end of the range node i was built for: where the next node outside
\* its subtree begins, or the end of the Object Array
RangeEnd(i) ==
    IF LastOf(i) < Len(nodes) THEN nodes[LastOf(i) + 1].data_begin ELSE Len(data)

\* C19: in the Node Store of a flat tree, a node has data_count = 0 exactly
\* when it has a child reference other than NO_CHILD, and a node with four
\* NO_CHILD slots has data_count >= 1, the size of the range it was built
\* for. Refuted: an internal node whose child links were stored through
\* build_tree's dangling reference has four NO_CHILD slots and data_count 0.
C19_CountIffLeaf ==
    IsFlat =>
       \A i \in 1..Len(nodes) :
          /\ nodes[i].data_count = 0 <=> Children(nodes[i]) # {}
          /\ is_leaf(nodes[i])
                => /\ nodes[i].data_count >= 1
                   /\ nodes[i].data_begin + nodes[i].data_count = RangeEnd(i)

\* --------------------------------------------------------------------- C20
\* the positions in nodes of the nodes with four NO_CHILD slots
Leaves == { i \in 1..Len(nodes) : is_leaf(nodes[i]) }
\* the indices of the Object Array in the range of node i
RangeOf(i) == nodes[i].data_begin..(nodes[i].data_begin + nodes[i].data_count - 1)

\* C20: after a rebuild the Object Array holds exactly the in-bounds
\* entities of the input, each once, and the ranges of the leaves are
\* pairwise disjoint, follow one another without a gap in the order the leaves
\* were built, and together cover [0, size of the Object Array).
C20_LeafRangesTile ==
    (IsFlat /\ pc = "ready")
        => /\ SeqSet(data) = InBounds
           /\ NoDup(data)
           /\ \A i, j \in Leaves : i # j => RangeOf(i) \cap RangeOf(j) = {}
           /\ UNION { RangeOf(i) : i \in Leaves } = 0..(Len(data) - 1)
           /\ \A i \in Leaves :
                 nodes[i].data_begin =
                    IF \E j \in Leaves : j < i
                    THEN LET j == MaxOf({ k \in Leaves : k < i })
                         IN nodes[j].data_begin + nodes[j].data_count
                    ELSE 0

\* C20 witness: a build that swapped the two entities in the Object Array and
\* gave each its own leaf
C20_Witness ==
    /\ IsFlat /\ pc = "ready"
    /\ objects = << 1, 2 >> /\ data = << 2, 1 >>
    /\ \E i, j \in Leaves : /\ i < j
                             /\ RangeOf(i) = {0}
                             /\ RangeOf(j) = {1}

\* --------------------------------------------------------------------- C21
\* the boundary of node i as origin and size
NodeRect(i) == IF impl = "SIMD" THEN to_rect(nodes[i].boundary) ELSE nodes[i].boundary
\* the exact quarters of a rectangle: half the width, half the height, at the
\* four combinations of origin and center
Quarters(r) ==
    { Rect(r.x + dx, r.y + dy, Half(r.width), Half(r.height)) :
         dx \in {0, Half(r.width)}, dy \in {0, Half(r.height)} }

\* C21: after a build, every entity in the range a node was built for (the
\* leaf ranges of its subtree) has its position inside the node's closed
\* rectangle, the root's rectangle is the tree boundary and every other
\* node's rectangle is an exact quarter of its parent's; entities on a split
\* line included.
C21_RangeInsideBoundary ==
    IsFlat =>
       \A i \in 1..Len(nodes) :
          /\ \A e \in Under(i) :
                /\ NodeRect(i).x <= position[e][1]
                /\ position[e][1] <= NodeRect(i).x + NodeRect(i).width
                /\ NodeRect(i).y <= position[e][2]
                /\ position[e][2] <= NodeRect(i).y + NodeRect(i).height
          /\ IF i = 1 THEN NodeRect(i) = BoundaryRect
             ELSE NodeRect(i) \in Quarters(NodeRect(Parent(i)))

\* C21 witness: a node below the root holds an entity that lies on the top
\* edge of the node's rectangle, the horizontal split line of its parent
C21_Witness ==
    /\ IsFlat /\ pc = "ready"
    /\ \E i \in 2..Len(nodes) : \E e \in Under(i) :
          /\ position[e][2] = NodeRect(i).y
          /\ position[e][2] = Center(nodes[Parent(i)].boundary, QueryCfg)[2]
          /\ position[e][1] # Center(nodes[Parent(i)].boundary, QueryCfg)[1]

\* --------------------------------------------------------------------- C22
\* the children of node i: the nodes of its subtree one level below it
KidsOf(i) == { k \in (i + 1)..LastOf(i) : nodes[k].depth = nodes[i].depth + 1 }
\* the entities of node i's range that its split sorts into quadrant q
SortedInto(i, q) ==
    { e \in Under(i) : Quadrant(position[e], Center(nodes[i].boundary, QueryCfg)) = q }
\* the children of node i built for quadrant q
KidsFor(i, q) ==
    { k \in KidsOf(i) : nodes[k].boundary = ChildBound(nodes[i].boundary, q, QueryCfg) }

\* C22: build_tree is never called on an empty range, every node of the Node
\* Store was built for a non-empty range, and a node that was split has
\* exactly one child for each quadrant whose sub-range is not empty and none
\* for an empty one, whose slot stays NO_CHILD.
C22_ChildIffNonEmpty ==
    IsFlat =>
       /\ stats.empty_calls = 0
       /\ Len(nodes) = stats.calls
       /\ \A i \in 1..Len(nodes) :
             /\ Under(i) # {}
             /\ KidsOf(i) # {} =>
                   \A q \in 1..4 :
                      /\ Cardinality(KidsFor(i, q)) = IF SortedInto(i, q) = {} THEN 0 ELSE 1
                      /\ SortedInto(i, q) = {} => nodes[i].quads[q] = NO_CHILD

\* C22 witness: a SIMDQuadTree root that was split into two children and two
\* empty quadrants, for which build_child_quad returned NO_CHILD
C22_Witness ==
    /\ impl = "SIMD" /\ pc = "ready" /\ Len(nodes) = 3
    /\ Cardinality(KidsOf(1)) = 2
    /\ \E q1, q2 \in 1..4 : /\ q1 # q2
                             /\ SortedInto(1, q1) = {} /\ SortedInto(1, q2) = {}
                             /\ nodes[1].quads[q1] = NO_CHILD /\ nodes[1].quads[q2] = NO_CHILD

\* --------------------------------------------------------------------- C24
\* the slots (parent, quadrant) of the Node Store that hold the index of node i
SlotsTo(i) ==
    { pq \in (1..Len(nodes)) \X (1..4) : nodes[pq[1]].quads[pq[2]] = i - 1 }
\* the nodes that the slots of the nodes in S refer to, together with S
RECURSIVE ReachFrom(_)
ReachFrom(S) ==
    LET T == S \cup { k \in 1..Len(nodes) :
                        \E p \in S : \E q \in 1..4 : nodes[p].quads[q] = k - 1 }
    IN  IF T = S THEN S ELSE ReachFrom(T)

\* C24: after a build every node but the root is referenced by exactly one
\* slot, that of its parent; every slot is NO_CHILD or the index of a node
\* stored after its owner; every node that holds data is reachable from the
\* root through the slots.
C24_LinksRecorded ==
    (IsFlat /\ nodes # << >>) =>
       /\ \A i \in 2..Len(nodes) :
             /\ Cardinality(SlotsTo(i)) = 1
             /\ \A pq \in SlotsTo(i) : pq[1] = Parent(i)
       /\ SlotsTo(1) = {}
       /\ \A p \in 1..Len(nodes) : \A q \in 1..4 :
             \/ nodes[p].quads[q] = NO_CHILD
             \/ (nodes[p].quads[q] > p - 1 /\ nodes[p].quads[q] < Len(nodes))
       /\ \A i \in 1..Len(nodes) : nodes[i].data_count > 0 => i \in ReachFrom({1})

\* --------------------------------------------------------------------- C25
\* C25: a SIMDQuadTree with a capacity of at least 1 completes every build:
\* no build ends in an arithmetic fault.
C25_RebuildCompletes ==
    (impl = "SIMD" /\ capacity >= 1 /\ op.name \in Builds) => pc # "halted"

\* --------------------------------------------------------------------- C27
\* the operations of the pointer-owned tree that end in insert(std::span)
QInserts == {"construct", "construct_fit", "insert", "rebuild", "rebuild_and_fit_to"}
\* the positions of the span of the last call that lie inside the root boundary
InsideRoot == { i \in 1..Len(objects) : CheckCollisionPointRec(position[objects[i]], boundary) }
\* the paths of the nodes that hold entity e
HoldersOf(e) == { p \in DOMAIN qt : \E k \in 1..Len(qt[p].objects) : qt[p].objects[k] = e }

\* C27: in the pointer-owned QuadTree no insert reaches the assert(false):
\* an entity inside the root boundary is stored in a node whose boundary
\* contains it, and insert(std::span) returns true exactly when every
\* entity of the span lies inside the root boundary; a rebuild stores
\* exactly the entities of the span that lie inside.
C27_InsertSucceeds ==
    (impl = "Pointer" /\ pc \in {"ready", "halted"} /\ op.name \in QInserts) =>
       /\ pc = "ready"
       /\ op.ret <=> (InsideRoot = 1..Len(objects))
       /\ \A i \in InsideRoot : HoldersOf(objects[i]) # {}
       /\ \A p \in DOMAIN qt : \A k \in 1..Len(qt[p].objects) :
             CheckCollisionPointRec(position[qt[p].objects[k]], qt[p].boundary)
       /\ op.name # "insert" => TotalObjects = Cardinality(InsideRoot)

\* C27 witness: an insert(std::span) that returned false for an entity
\* outside the stage and pushed the entity on the far corner of the stage
\* down into a child of the subdivided root
C27_Witness ==
    /\ impl = "Pointer" /\ pc = "ready" /\ op.name = "insert" /\ ~op.ret
    /\ boundary = StageRect /\ qt[RootPath].subdivided
    /\ \E e \in Entity : /\ position[e] = << 128, 128 >>
                          /\ \E p \in HoldersOf(e) : Len(p) >= 1

\* --------------------------------------------------------------------- C28
\* C28: a query_range into a vector that already holds a result keeps that
\* result, in order, as a prefix and appends what the same query returns
\* into an empty vector; it changes nothing else.
C28_QueryAppends ==
    [][ (IsFlat /\ query.active /\ query'.active) =>
           /\ Len(found') >= Len(found)
           /\ SubSeq(found', 1, Len(found)) = found
           /\ SubSeq(found', Len(found) + 1, Len(found')) =
                  query_range_recursive(nodes, data, ROOT_ID,
                                        IF impl = "SIMD" THEN SIMDRectOf(query'.range)
                                        ELSE query'.range,
                                        [found |-> << >>, visited |-> << >>],
                                        position, QueryCfg).found
           /\ UNCHANGED << position, boundary, capacity, max_depth, nodes, nodes_cap,
                           data, objects, op, pc >> ]_vars

\* C28 witness: two overlapping queries accumulated in one vector, so that
\* an entity is in it twice
C28_Witness ==
    /\ IsFlat /\ pc = "ready" /\ query.active
    /\ Len(found) >= 3
    /\ \E i, j \in 1..Len(found) : i < j /\ found[i] = found[j]
    /\ \E i, j \in 1..Len(found) : found[i] # found[j]

\* --------------------------------------------------------------------- C23
\* the boid at position p is inside STAGE_RECT
InStage(p) == CheckCollisionPointRec(p, StageRect)

\* C23: whenever the loop is about to rebuild the tree, every boid's
\* position lies inside STAGE_RECT.
C23_InStageAtRebuild ==
    (sim.mode = "tree" /\ sim.at = "frame") => \A e \in Entity : InStage(position[e])

\* --------------------------------------------------------------------- C26
\* C26: when a boid has just queried the tree, every indexed boid's current
\* position lies inside the boundary of the leaf that holds it, and the
\* boid's list holds exactly the boids whose current position is inside
\* the query rectangle.
C26_QueryCurrent ==
    (sim.mode = "tree" /\ sim.fresh) =>
       /\ \A i \in Leaves : \A e \in LeafSet(nodes[i]) :
             CheckCollisionPointRec(position[e], NodeRect(i))
       /\ SeqSet(found) = { e \in Entity : CheckCollisionPointRec(position[e], query.range) }

\* --------------------------------------------------------------------- C29
\* C29: a boid's visible-neighbour list never contains the boid itself.
C29_NotItself ==
    sim.owner # 0 => \A k \in 1..Len(found) : found[k] # sim.owner

\* --------------------------------------------------------------------- C30
\* C30: the vectorized compute_bounds_of returns the rectangle the scalar
\* loop returns for the same span.
C30_VectorizedEqualsScalar ==
    op.name = "compute_bounds_of_simd" =>
       boundary = FittedBoundary(objects, position, QueryCfg)

====
